---- MODULE Spec2Model ----
(***************************************************************************)
(* ETLScanBus: the file ingestion pipeline of main.py (debounce timers,    *)
(* in-flight set, bounded submission queue, queue workers, shutdown), the  *)
(* batch-record merge of database_module.py run by db_executor, and the    *)
(* client registry and mailboxes of socket_server.py.                      *)
(*                                                                         *)
(* Every thread of the program is a small state machine here; one action   *)
(* is one stretch of code that runs under a lock or is a single call on a  *)
(* thread-safe object (queue.Queue, threading.Event, one SQL statement).   *)
(*                                                                         *)
(* Spec      the pipeline: notifications, timers, workers, shutdown.       *)
(* SpecFlow  the pipeline and the merges it hands to db_executor.          *)
(* SpecIntake the debouncer alone, with a longer burst of notifications.   *)
(* SpecMerge update_table_async called with arbitrary arguments on an      *)
(*           arbitrary store content, merges running on db_executor.       *)
(* SpecLot   update_table_with_cotas on every QTD / TAM_LOTE pair.         *)
(* SpecFields the merge of remarks and inspectors, merges running          *)
(*           concurrently.                                                 *)
(* SpecServer clients connecting, registering and leaving while            *)
(*           notify_clients and notify_specific_client are called.         *)
(* SpecTeardown the socket server with its threads scheduled fairly.       *)
(* SpecOrder the socket server with mailboxes that hold two messages.      *)
(* SpecSingle one merge at a time into a new record.                       *)
(* SpecWorkers the pipeline with the worker threads scheduled fairly.      *)
(* SpecShutdown the pipeline and db_executor, cleanup scheduled fairly.    *)
(***************************************************************************)
EXTENDS Integers, Sequences, FiniteSets, TLC

\* ---------------------------------------------------------------- bounds
\* Raw filesystem notifications delivered by the observer in one run of Spec
\* and SpecFlow, and in one run of SpecIntake.
MaxEvents == 2
MaxBurst == 3
\* AMOSTRAGEM of the load index (the sample size a shard accepts).
SampleSize == 2
\* Calls of update_table_async in one run of SpecMerge.
MaxMerges == 2
\* Calls of notify_clients and notify_specific_client in one run of SpecServer.
MaxCalls == 2
\* Times cleanup is invoked in one run (signal handler, main's finally, exit hook).
MaxCleanups == 2

\* db_executor = ThreadPoolExecutor(max_workers=MAX_WORKERS).
MAX_WORKERS == 5

\* Watched *.json paths (events for directories or other extensions are
\* dropped at main.py:369 and change no state).
Paths == {"a.json", "b.json"}
\* The process_queue_worker threads (start_worker_threads(num_workers);
\* MAX_PROCESSING_THREADS = 1 by default, main.py:33).
Workers == {1, 2}
\* processing_queue = queue.Queue(maxsize=MAX_QUEUE_SIZE); 1000 in main.py:34.
\* A run is configured with one of these capacities, small enough for
\* queue.Full to happen.
QueueSizes == {1, 2}
\* Tables PIP_TL_PCT_1, PIP_TL_PCT_2 exist in the store.
Shards == {1, 2}
\* Dimension columns cota_a.. of a shard table (at most 26, database_module.py:258).
Cotas == {1}
\* Measured values ("Medida").
Values == {-1, 0, 1, 2}
\* lra_values: one value per dimension column, or more values than columns.
ValueLists == {<<v>> : v \in Values} \cup {<<2, 2>>}
\* A column value read from the store or a field read from a file: None
\* (SQL NULL, missing key) or a value.
None == <<>>
Some(v) == <<v>>
\* (QTD, TAM_LOTE) of the load index.
QtdLote == {<<Some(0), Some(1)>>, <<Some(2), Some(0)>>,
            <<Some(2), Some(1)>>, <<Some(3), Some(2)>>}
\* (QTD, TAM_LOTE) pairs SpecLot draws from: missing and zero columns,
\* quotients with and without remainder, below one, and negative numbers.
LotInputs == QtdLote \cup
             {<<None, Some(1)>>, <<Some(2), None>>, <<Some(1), Some(2)>>,
              <<Some(-3), Some(-2)>>, <<Some(-2), Some(1)>>}

\* Client connections (addr of an accepted socket) and the names clients send.
Addrs == {"c1", "c2"}
Names == {"m1", "m2"}
\* queue.Queue(maxsize=100) in socket_server.py:154; a capacity small enough
\* for queue.Full to happen.
MailboxSize == 1
\* A capacity that lets messages queue up behind one another.
WideMailbox == 2
\* lra_data of a notify call: an empty dict, or a dict with entries.
LraData == {"empty", "entries"}

\* What a measurement file holds: whether it is JSON at all, Machine_id, and
\* the Medida of each DIMENSIONAL entry (None when it is not a number).
NoFile == [json |-> FALSE, machine |-> None, medidas |-> <<>>]
Files == {[json |-> TRUE, machine |-> Some("m1"), medidas |-> <<Some(1)>>],
          [json |-> TRUE, machine |-> None, medidas |-> <<Some(1)>>],
          [json |-> TRUE, machine |-> Some("m1"), medidas |-> <<>>],
          [json |-> TRUE, machine |-> Some("m1"), medidas |-> <<None>>],
          NoFile}

NoTimer == 0
NoItem == [path |-> "", seq |-> 0]
\* The remark columns of a shard table (database_module.py:276-280).
RemFields == {"rem_a", "rem_b", "atrib"}
NoRemarks == [f \in RemFields |-> None]
\* rem_a, rem_b, atrib of a merge: all missing; one given; all given, one of
\* them as the empty string.
RemInputs == {NoRemarks,
              [NoRemarks EXCEPT !["rem_a"] = Some("r1")],
              [f \in RemFields |-> IF f = "atrib" THEN Some("") ELSE Some("r2")]}
\* Operator names, as the list of the pieces str.split(",") cuts them into:
\* "" (no piece), "ana", "bia", and the name "ana, bia" that holds a comma.
Operators == {None, Some(<<>>), Some(<<"ana">>), Some(<<"bia">>), Some(<<"ana", "bia">>)}
NoRow == [present |-> FALSE, medicao |-> 0,
          cmin |-> [i \in Cotas |-> 0], cmax |-> [i \in Cotas |-> 0],
          rem |-> NoRemarks, insp |-> <<>>, dm3 |-> None]

VARIABLES
    \* ---- main.py module state
    processing_timers,  \* dict path -> Timer (timer id, NoTimer when absent)
    processing_files,   \* set of paths (the in-flight set)
    processing_queue,   \* queue.Queue contents, head first
    maxsize,            \* processing_queue.maxsize
    unfinished_tasks,   \* queue.Queue.unfinished_tasks (put / task_done)
    stop_event,         \* threading.Event
    \* ---- threads of main.py
    observer,           \* TRUE while the watchdog observer delivers events
    timers,             \* live threading.Timer threads
    wpc, wcur, wres,    \* process_queue_worker: position, item, outcome
    wfile,              \* process_file: the content read from the item's file
    wdid,               \* process_file: the calls made for the item so far
    files_processed,    \* stats["files_processed"]
    processing_errors,  \* stats["processing_errors"]
    cpc,                \* cleanup(): position
    cruns,              \* cleanup(): invocations so far
    \* ---- database_module.py
    dbShutdown,         \* db_executor has been shut down
    dbQueue,            \* db_executor work queue
    dbRunning,          \* merges running on db_executor threads
    shards,             \* shard -> the row of the load index in PIP_TL_PCT_<shard>
    \* ---- history
    nEvents,            \* notifications so far (also the last timer id)
    eventBudget,        \* notifications the environment delivers in this run
    lastTimer,          \* path -> id of the timer of its latest notification
    calls,              \* path -> calls of _queue_file_for_processing, per burst
    nAccepted,          \* successful put_nowait calls so far
    nStarted,           \* successful processing_queue.get calls so far
    lastSubmit,         \* the latest submit that returned: its path and result
    nMerges,            \* update_table_async calls so far (also the last merge id)
    lastReturn,         \* the merge that returned last, and its return value
    \* ---- socket_server.py module state
    client_queues,      \* dict addr -> queue.Queue contents, head first
    client_names,       \* dict addr -> client name
    client_connections, \* dict addr -> connection (named by its addr)
    name_to_addr,       \* dict client name -> addr
    \* ---- sockets and threads of socket_server.py
    closed,             \* connections the server has called close() on
    peerGone,           \* connections whose client end is gone
    hpc, cname,         \* handle_client(conn, addr): position, client_name
    spc, smsg,          \* sender_thread(conn, addr, queue): position, message
    \* ---- history
    delivered,          \* addr -> messages sendall wrote to a live connection
    nCalls,             \* notify calls so far (also the last message id)
    callBudget,         \* notify calls the environment makes in this run
    mailsize,           \* maxsize of the client mailboxes in this run
    since,              \* addr -> nCalls when its registration was installed
    lastNotify          \* the latest notify call and what it did

timerVars == <<processing_timers, timers, nEvents, eventBudget, lastTimer, calls>>
fileVars == <<processing_files, lastSubmit>>
queueVars == <<processing_queue, maxsize, unfinished_tasks, nAccepted, nStarted>>
statsVars == <<files_processed, processing_errors>>
workerVars == <<wpc, wcur, wres, wfile, wdid, statsVars>>
ctlVars == <<stop_event, observer, cpc, cruns>>
pipeVars == <<timerVars, fileVars, queueVars, workerVars, ctlVars>>
execVars == <<dbShutdown, dbQueue, nMerges>>
mergeVars == <<dbRunning, shards, lastReturn>>
coreVars == <<pipeVars, execVars, mergeVars>>
registryVars == <<client_queues, client_names, client_connections, name_to_addr>>
socketVars == <<closed, peerGone>>
handlerVars == <<hpc, cname>>
senderVars == <<spc, smsg>>
noteVars == <<delivered, nCalls, callBudget, mailsize, since, lastNotify>>
srvVars == <<registryVars, socketVars, handlerVars, senderVars, noteVars>>
vars == <<coreVars, srvVars>>

\* ------------------------------------------------------ debounced intake
Waiting(id) == \E t \in timers : t.id = id /\ t.st = "waiting"

\* threading.Timer.cancel(): sets the timer's finished event.  A timer still
\* in finished.wait(interval) then ends without calling its function; a timer
\* that already passed its `if not self.finished.is_set()` test is unaffected.
Cancel(ts, id) == {t \in ts : ~(t.id = id /\ t.st = "waiting")}

\* FileChangeHandler._handle_file_event, the block under timer_lock.
\* b is the burst the notification belongs to: it continues the burst of the
\* previous notification on the path iff that notification's timer has not
\* yet elapsed (is still waiting).
HandleFileEvent(p) ==
    /\ observer
    /\ nEvents < eventBudget
    /\ LET id == nEvents + 1
           cont == Waiting(lastTimer[p])
           b == IF cont THEN Len(calls[p]) ELSE Len(calls[p]) + 1
           old == IF processing_timers[p] # NoTimer
                  THEN Cancel(timers, processing_timers[p])
                  ELSE timers
       IN /\ timers' = old \cup {[id |-> id, path |-> p, b |-> b, st |-> "waiting"]}
          /\ processing_timers' = [processing_timers EXCEPT ![p] = id]
          /\ calls' = IF cont THEN calls ELSE [calls EXCEPT ![p] = Append(@, 0)]
          /\ lastTimer' = [lastTimer EXCEPT ![p] = id]
          /\ nEvents' = id
          /\ UNCHANGED eventBudget
    /\ UNCHANGED <<fileVars, queueVars, workerVars, ctlVars, execVars, mergeVars>>
    /\ UNCHANGED srvVars

\* threading.Timer.run: the interval elapsed and the timer was not cancelled,
\* so it calls self.function, i.e. _queue_file_for_processing(path).
TimerFire(t) ==
    /\ t.st = "waiting"
    /\ timers' = (timers \ {t}) \cup {[t EXCEPT !.st = "cb_timer"]}
    /\ calls' = [calls EXCEPT ![t.path][t.b] = @ + 1]
    /\ UNCHANGED <<processing_timers, nEvents, eventBudget, lastTimer>>
    /\ UNCHANGED <<fileVars, queueVars, workerVars, ctlVars, execVars, mergeVars>>
    /\ UNCHANGED srvVars

\* _queue_file_for_processing, main.py:392-394: under timer_lock, delete the
\* path's entry of processing_timers (whichever timer it holds).
ClearTimer(pt, p) == [pt EXCEPT ![p] = NoTimer]

QueueClearTimer(t) ==
    /\ t.st = "cb_timer"
    /\ processing_timers' = ClearTimer(processing_timers, t.path)
    /\ timers' = (timers \ {t}) \cup {[t EXCEPT !.st = "cb_files"]}
    /\ UNCHANGED <<nEvents, eventBudget, lastTimer, calls>>
    /\ UNCHANGED <<fileVars, queueVars, workerVars, ctlVars, execVars, mergeVars>>
    /\ UNCHANGED srvVars

\* Variant of the in-flight test that never finds the path.
AlreadyProcessing_Never(p) == FALSE

\* main.py:397-403: under processing_lock, return if the path is in flight,
\* else mark it in flight.
AlreadyProcessing(p) == p \in processing_files

QueueMarkInFlight(t) ==
    /\ t.st = "cb_files"
    /\ IF AlreadyProcessing(t.path)
       THEN /\ timers' = timers \ {t}
            /\ lastSubmit' = [path |-> t.path, res |-> "duplicate"]
            /\ UNCHANGED processing_files
       ELSE /\ timers' = (timers \ {t}) \cup {[t EXCEPT !.st = "cb_put"]}
            /\ processing_files' = processing_files \cup {t.path}
            /\ UNCHANGED lastSubmit
    /\ UNCHANGED <<processing_timers, nEvents, eventBudget, lastTimer, calls>>
    /\ UNCHANGED <<queueVars, workerVars, ctlVars, execVars, mergeVars>>
    /\ UNCHANGED srvVars

\* main.py:406-410: processing_queue.put_nowait(file_path); queue.Full is
\* raised, without waiting, when the queue holds maxsize items.
QueuePut(t) ==
    /\ t.st = "cb_put"
    /\ IF Len(processing_queue) < maxsize
       THEN /\ processing_queue' =
                   Append(processing_queue, [path |-> t.path, seq |-> nAccepted + 1])
            /\ unfinished_tasks' = unfinished_tasks + 1
            /\ nAccepted' = nAccepted + 1
            /\ lastSubmit' = [path |-> t.path, res |-> "accepted"]
            /\ timers' = timers \ {t}
       ELSE /\ timers' = (timers \ {t}) \cup {[t EXCEPT !.st = "cb_full"]}
            /\ UNCHANGED <<processing_queue, unfinished_tasks, nAccepted, lastSubmit>>
    /\ UNCHANGED <<processing_timers, nEvents, eventBudget, lastTimer, calls>>
    /\ UNCHANGED <<processing_files, maxsize, nStarted, workerVars, ctlVars, execVars, mergeVars>>
    /\ UNCHANGED srvVars

\* Variant of the queue.Full handler that leaves the in-flight set alone.
FullRemove_Keep(files, p) == files

\* main.py:411-413: the queue.Full handler takes the path out of the in-flight
\* set again.
FullRemove(files, p) == files \ {p}

QueueFull(t) ==
    /\ t.st = "cb_full"
    /\ processing_files' = FullRemove(processing_files, t.path)
    /\ lastSubmit' = [path |-> t.path, res |-> "full"]
    /\ timers' = timers \ {t}
    /\ UNCHANGED <<processing_timers, nEvents, eventBudget, lastTimer, calls>>
    /\ UNCHANGED <<queueVars, workerVars, ctlVars, execVars, mergeVars>>
    /\ UNCHANGED srvVars

\* ------------------------------------------------------------ workers
\* process_queue_worker, main.py:331: the loop test `while not stop_event.is_set()`.
WorkerLoop(w) ==
    /\ wpc[w] = "loop"
    /\ wpc' = [wpc EXCEPT ![w] = IF stop_event THEN "exited" ELSE "get"]
    /\ UNCHANGED <<wcur, wres, wfile, wdid, statsVars>>
    /\ UNCHANGED <<timerVars, fileVars, queueVars, ctlVars, execVars, mergeVars>>
    /\ UNCHANGED srvVars

\* Variant of get that hands out the newest item (deque.pop).
DequeueLifo(q) == [item |-> q[Len(q)], rest |-> SubSeq(q, 1, Len(q) - 1)]

\* queue.Queue.get (Queue._get is deque.popleft): the item a worker is handed,
\* and what stays queued.
Dequeue(q) == [item |-> Head(q), rest |-> Tail(q)]

\* main.py:334: processing_queue.get(timeout=0.5): the oldest item, or
\* queue.Empty after the timeout (main.py:343), back to the loop test.
WorkerGet(w) ==
    /\ wpc[w] = "get"
    /\ IF Len(processing_queue) > 0
       THEN /\ wcur' = [wcur EXCEPT ![w] = Dequeue(processing_queue).item]
            /\ processing_queue' = Dequeue(processing_queue).rest
            /\ nStarted' = nStarted + 1
            /\ wpc' = [wpc EXCEPT ![w] = "run"]
       ELSE /\ wpc' = [wpc EXCEPT ![w] = "loop"]
            /\ UNCHANGED <<wcur, processing_queue, nStarted>>
    /\ UNCHANGED <<maxsize, unfinished_tasks, nAccepted, wres, wfile, wdid, statsVars>>
    /\ UNCHANGED <<timerVars, fileVars, ctlVars, execVars, mergeVars>>
    /\ UNCHANGED srvVars

\* -------------------------------------------- socket server: notify
\* dict operations: del d[k] and d[k] = v.
Del(d, k) == [x \in DOMAIN d \ {k} |-> d[x]]
Set(d, k, v) == [x \in DOMAIN d \cup {k} |-> IF x = k THEN v ELSE d[x]]

\* Variant of the mailbox put that ignores the capacity.
PutAlways(q, m) == Append(q, m)
\* put_nowait inside try / except queue.Full: the message is appended, or the
\* queue is full and stays as it is (socket_server.py:45-49, 66-70).
PutNowait(q, m) == IF Len(q) < mailsize THEN Append(q, m) ELSE q

\* Variant of the pass that skips connections the server has closed.
BroadcastTargets_Open(queues) == {a \in DOMAIN queues : a \notin closed}
\* socket_server.py:44: list(client_queues.keys()).
BroadcastTargets(queues) == DOMAIN queues

\* notify_clients(lra_data), socket_server.py:26-49.  `not lra_data` returns
\* before the lock; otherwise one pass over client_queues under the lock.
NotifyClients(data) ==
    /\ nCalls < callBudget
    /\ nCalls' = nCalls + 1
    /\ IF data = "empty"
       THEN /\ UNCHANGED client_queues
            /\ lastNotify' = [id |-> nCalls + 1, kind |-> "broadcast",
                              target |-> "", res |-> "nodata"]
       ELSE /\ client_queues' =
                  [a \in DOMAIN client_queues |->
                      IF a \in BroadcastTargets(client_queues)
                      THEN PutNowait(client_queues[a],
                                     [id |-> nCalls + 1, kind |-> "broadcast"])
                      ELSE client_queues[a]]
            /\ lastNotify' = [id |-> nCalls + 1, kind |-> "broadcast",
                              target |-> "", res |-> "passed"]
    /\ UNCHANGED <<client_names, client_connections, name_to_addr>>
    /\ UNCHANGED <<socketVars, handlerVars, senderVars, delivered, callBudget, mailsize, since>>
    /\ UNCHANGED coreVars

\* Variant of the log that always reports the client as marked.
SpecificResult_Marked(target) == "queued"
\* What notify_specific_client logs (socket_server.py:68-74).
SpecificResult(target) ==
    IF target \notin DOMAIN name_to_addr THEN "notfound"
    ELSE IF name_to_addr[target] \notin DOMAIN client_queues THEN "noqueue"
    ELSE IF Len(client_queues[name_to_addr[target]]) < mailsize THEN "queued"
    ELSE "full"

\* notify_specific_client(lra_data, target_client), socket_server.py:51-74:
\* its effect on the server state.
NotifySpecificClient(target) ==
    /\ nCalls' = nCalls + 1
    /\ lastNotify' = [id |-> nCalls + 1, kind |-> "targeted",
                      target |-> target, res |-> SpecificResult(target)]
    /\ IF target \in DOMAIN name_to_addr /\ name_to_addr[target] \in DOMAIN client_queues
       THEN client_queues' =
               [client_queues EXCEPT ![name_to_addr[target]] =
                   PutNowait(@, [id |-> nCalls + 1, kind |-> "targeted"])]
       ELSE UNCHANGED client_queues
    /\ UNCHANGED <<client_names, client_connections, name_to_addr>>
    /\ UNCHANGED <<socketVars, handlerVars, senderVars, delivered, callBudget, mailsize, since>>

NotifySpecific(target) ==
    /\ nCalls < callBudget
    /\ NotifySpecificClient(target)
    /\ UNCHANGED coreVars

\* extract_data_from_json (main.py:138-177): machine_id and the numeric
\* Medida values, or all None when the file cannot be parsed or Machine_id or
\* DIMENSIONAL is missing or empty.
NoData == [machine |-> None, values |-> None]
RECURSIVE Numeric(_)
Numeric(medidas) ==
    IF medidas = <<>> THEN <<>>
    ELSE (IF Head(medidas) = None THEN <<>> ELSE <<Head(medidas)[1]>>)
            \o Numeric(Tail(medidas))
Extract(file) ==
    IF ~file.json \/ file.machine = None \/ file.machine = Some("")
          \/ file.medidas = <<>>
    THEN NoData
    ELSE [machine |-> file.machine, values |-> Some(Numeric(file.medidas))]

\* main.py:298: `if machine_id and dimensional_values`.
Usable(e) ==
    /\ e.machine # None /\ e.machine # Some("")
    /\ e.values # None /\ e.values # Some(<<>>)

\* The merge process_file_update hands to update_table_async for an item
\* (main.py:270).  The load index of the pipeline specifications has QTD 2
\* and TAM_LOTE 1 (two shards).
FileMerge(id, item, e) ==
    [id |-> id, path |-> item.path, att |-> item.seq,
     vals |-> e.values[1], qtd |-> Some(2), lote |-> Some(1),
     rem |-> NoRemarks, op |-> Some(<<"ana">>)]

\* Variant of the error count that leaves incomplete files out.
ErrorsAfter_Quiet(errors, r) == IF r = "exc" THEN errors + 1 ELSE errors
\* stats["processing_errors"] after the try body (main.py:312-320).
ErrorsAfter(errors, r) == IF r \in {"invalid", "exc"} THEN errors + 1 ELSE errors

\* process_file, the try body (main.py:289-320), for one file:
\*   "ok"      extracted, both lookups found, update_table_async called,
\*             notify_specific_client called;
\*   "skip"    extracted, but process_file_update returned False: a lookup
\*             missed, or db_executor.submit raised after shutdown (caught at
\*             278); notify_specific_client called all the same;
\*   "invalid" extract_data_from_json gave no machine id or no values
\*             (main.py:312-315);
\*   "exc"     an exception reached main.py:317, before (sub = FALSE) or after
\*             (sub = TRUE) the merge was handed to db_executor.
\* update_table_async (database_module.py:346) only queues the merge.
WorkerRun(w) ==
    /\ wpc[w] = "run"
    /\ \E file \in Files, r \in {"ok", "skip", "invalid", "exc"}, sub \in BOOLEAN :
          LET e == Extract(file)
              looked == r \in {"ok", "skip"} \/ sub
              notified == r \in {"ok", "skip"}
          IN /\ (r = "invalid") <=> ~Usable(e)
             /\ (r = "ok") => sub
             /\ sub => (r \in {"ok", "exc"} /\ ~dbShutdown)
             /\ wres' = [wres EXCEPT ![w] = r]
             /\ wfile' = [wfile EXCEPT ![w] = file]
             /\ wdid' = [wdid EXCEPT ![w] =
                            (IF looked THEN {"lookup"} ELSE {})
                            \cup (IF sub THEN {"merge"} ELSE {})
                            \cup (IF notified THEN {"notify"} ELSE {})]
             /\ files_processed' = files_processed + 1
             /\ processing_errors' = ErrorsAfter(processing_errors, r)
             /\ dbQueue' = IF sub THEN Append(dbQueue, FileMerge(nMerges + 1, wcur[w], e))
                                  ELSE dbQueue
             /\ nMerges' = IF sub THEN nMerges + 1 ELSE nMerges
             /\ IF notified THEN NotifySpecificClient(e.machine[1])
                            ELSE UNCHANGED srvVars
    /\ wpc' = [wpc EXCEPT ![w] = "finally"]
    /\ UNCHANGED <<wcur, dbShutdown>>
    /\ UNCHANGED <<timerVars, fileVars, queueVars, ctlVars, mergeVars>>

\* Variant of the release that is skipped when the try body raised.
FinallyRemove_OnSuccess(files, p, r) == IF r = "exc" THEN files ELSE files \ {p}

\* process_file, the finally block (main.py:321-325), under processing_lock;
\* r is the outcome of the try body.
FinallyRemove(files, p, r) == files \ {p}

WorkerFinally(w) ==
    /\ wpc[w] = "finally"
    /\ processing_files' = FinallyRemove(processing_files, wcur[w].path, wres[w])
    /\ wpc' = [wpc EXCEPT ![w] = "task_done"]
    /\ wfile' = [wfile EXCEPT ![w] = NoFile]
    /\ wdid' = [wdid EXCEPT ![w] = {}]
    /\ UNCHANGED <<wcur, wres, statsVars, lastSubmit>>
    /\ UNCHANGED <<timerVars, queueVars, ctlVars, execVars, mergeVars>>
    /\ UNCHANGED srvVars

\* Variant of the worker loop that ends when process_file has failed.
AfterTask_Dies(r) == IF r \in {"invalid", "exc"} THEN "exited" ELSE "loop"
\* main.py:331-346: where the worker goes after task_done, r being the outcome
\* of process_file, which lets no exception out (main.py:317); the loop has
\* its own handler besides (345).
AfterTask(r) == "loop"

\* main.py:339-341: processing_queue.task_done().
WorkerTaskDone(w) ==
    /\ wpc[w] = "task_done"
    /\ unfinished_tasks' = unfinished_tasks - 1
    /\ wpc' = [wpc EXCEPT ![w] = AfterTask(wres[w])]
    /\ wcur' = [wcur EXCEPT ![w] = NoItem]
    /\ wres' = [wres EXCEPT ![w] = "none"]
    /\ UNCHANGED <<wfile, wdid, statsVars>>
    /\ UNCHANGED <<processing_queue, maxsize, nAccepted, nStarted>>
    /\ UNCHANGED <<timerVars, fileVars, ctlVars, execVars, mergeVars>>
    /\ UNCHANGED srvVars

\* ----------------------------------------------------------- shutdown
\* signal_handler / cleanup, main.py:441 and 467: stop_event.set().  cleanup
\* is called by signal_handler (main.py:468), by main's finally (571) and by
\* the exit hook (512), one call after the other on the main thread.
CleanupSignal ==
    /\ cpc \in {"idle", "done"}
    /\ cruns < MaxCleanups
    /\ cruns' = cruns + 1
    /\ stop_event' = TRUE
    /\ cpc' = "db_shutdown"
    /\ UNCHANGED observer
    /\ UNCHANGED <<timerVars, fileVars, queueVars, workerVars, execVars, mergeVars>>
    /\ UNCHANGED srvVars

\* cleanup, main.py:447 -> database_module.shutdown, line 362:
\* db_executor.shutdown(wait=True) first refuses new work ...
CleanupDbShutdown ==
    /\ cpc = "db_shutdown"
    /\ dbShutdown' = TRUE
    /\ cpc' = "db_wait"
    /\ UNCHANGED <<stop_event, observer, cruns, dbQueue, nMerges>>
    /\ UNCHANGED <<timerVars, fileVars, queueVars, workerVars, mergeVars>>
    /\ UNCHANGED srvVars

\* Variant of the join that waits until every item got its task_done.
QueueJoin_Waits(unfinished) == unfinished = 0
\* main.py:450-454: whether processing_queue.join(timeout=5.0) lets cleanup
\* go on.  queue.Queue.join takes no timeout argument, so the call raises
\* TypeError at once, which main.py:453 catches, whatever the queue holds.
QueueJoin(unfinished) == TRUE

\* ... and then waits until the queued and running merges have returned.  The
\* rest of cleanup (main.py:449-462) changes no state.
CleanupFinish ==
    /\ cpc = "db_wait"
    /\ dbQueue = <<>>
    /\ dbRunning = {}
    /\ QueueJoin(unfinished_tasks)
    /\ cpc' = "done"
    /\ UNCHANGED <<stop_event, observer, cruns>>
    /\ UNCHANGED <<timerVars, fileVars, queueVars, workerVars, execVars, mergeVars>>
    /\ UNCHANGED srvVars

\* start_file_monitor, main.py:479-483: the monitor thread sees stop_event and
\* stops the observer; no notification is delivered afterwards.
MonitorStop ==
    /\ stop_event
    /\ observer
    /\ observer' = FALSE
    /\ UNCHANGED <<stop_event, cpc, cruns>>
    /\ UNCHANGED <<timerVars, fileVars, queueVars, workerVars, execVars, mergeVars>>
    /\ UNCHANGED srvVars

\* ------------------------------------------------- db_executor and merge
\* update_table_with_cotas, database_module.py:223-230: `not qtd or not lote`
\* and `total = int(qtd / lote)`, `total <= 0`.
\* `not x` for a column value: None or 0.
Falsy(x) == x = None \/ x[1] = 0
Abs(n) == IF n < 0 THEN -n ELSE n
\* Variant of the shard count that rounds the quotient up.
Total_Up(qtd, lote) == (Abs(qtd) + Abs(lote) - 1) \div Abs(lote)
\* int(qtd / lote): the quotient truncated towards zero.
Total(qtd, lote) ==
    IF (qtd < 0) = (lote < 0) THEN Abs(qtd) \div Abs(lote)
                              ELSE -(Abs(qtd) \div Abs(lote))
ValidLot(qtd, lote) == ~Falsy(qtd) /\ ~Falsy(lote) /\ Total(qtd[1], lote[1]) > 0

\* Variant of the filter with medicao <= ?.
Eligible_Le(row, amostragem) == row.present /\ row.medicao <= amostragem

\* database_module.py:244: SELECT * FROM PIP_TL_PCT_i WHERE INDEX = ? AND
\* medicao < ?, fetchone(): the row, if it exists and passes the filter.
Eligible(row, amostragem) == row.present /\ row.medicao < amostragem

\* Variant of the new count that adds two.
NewMedicao_Two(current) == current + 2
\* database_module.py:251.
NewMedicao(current) == current + 1

\* database_module.py:269-273.  A NULL column reads as 0 (269-270), so 0 stands
\* for both here.
MinOf(a, b) == IF a <= b THEN a ELSE b
MaxOf(a, b) == IF a >= b THEN a ELSE b
\* Variant of the minimum without the zero test.
NewMin_NoSeed(existing, medida) == MinOf(existing, medida)
NewMin(existing, medida) == IF existing = 0 THEN medida ELSE MinOf(existing, medida)
NewMax(existing, medida) == IF existing = 0 THEN medida ELSE MaxOf(existing, medida)

\* The dimensions a value list updates: database_module.py:257-265, positions
\* below the cap whose cota_x_min / cota_x_max columns exist.
Updated(vals) == {i \in Cotas : i <= Len(vals)}

\* Variant of the remark loop that puts every remark column in the update.
RemWrites_All(rem) == RemFields
\* database_module.py:282-284: the remark columns that go into update_values.
RemWrites(rem) == {f \in RemFields : rem[f] # None}

\* database_module.py:288-289: the INSP text, NULL read as "", cut at the
\* commas, the pieces stripped and the empty ones dropped.  insp is the list
\* of the pieces.
Inspectors(insp) == {insp[i] : i \in 1..Len(insp)}
\* database_module.py:291: `operador and operador not in inspectors`.
AddsOperator(insp, op) ==
    /\ op # None
    /\ op[1] # <<>>
    /\ op[1] \notin {<<n>> : n \in Inspectors(insp)}
\* ", ".join(a set): the names in any order, as a list of pieces.
RECURSIVE Orders(_)
Orders(E) == IF E = {} THEN {<<>>}
             ELSE UNION {{e \o r : r \in Orders(E \ {e})} : e \in E}
\* database_module.py:291-293: what update_values["insp"] can be, None when
\* the column is left out of the update.
InspWrites(insp, op) ==
    IF AddsOperator(insp, op)
    THEN {Some(j) : j \in Orders({<<n>> : n \in Inspectors(insp)} \cup {op[1]})}
    ELSE {None}

\* update_values, database_module.py:254-295, built from the fetched row;
\* insp is one of InspWrites.
UpdateValues(row, vals, rem, insp) ==
    [medicao |-> NewMedicao(row.medicao),
     cmin |-> [i \in Updated(vals) |-> NewMin(row.cmin[i], vals[i])],
     cmax |-> [i \in Updated(vals) |-> NewMax(row.cmax[i], vals[i])],
     rem |-> [f \in RemWrites(rem) |-> rem[f]],
     insp |-> insp,
     dm3 |-> Some("OK")]

\* database_module.py:298-306: UPDATE PIP_TL_PCT_i SET <the columns of
\* update_values> WHERE INDEX = ?; the other columns keep their stored value.
ApplyUpdate(cur, upd) ==
    [cur EXCEPT !.medicao = upd.medicao,
                !.cmin = [i \in Cotas |-> IF i \in DOMAIN upd.cmin THEN upd.cmin[i] ELSE @[i]],
                !.cmax = [i \in Cotas |-> IF i \in DOMAIN upd.cmax THEN upd.cmax[i] ELSE @[i]],
                !.rem = [f \in RemFields |-> IF f \in DOMAIN upd.rem THEN upd.rem[f] ELSE @[f]],
                !.insp = IF upd.insp = None THEN @ ELSE upd.insp[1],
                !.dm3 = upd.dm3]

\* Variant of the scan that starts at the last table.
ScanStart_Last(total) == total

\* database_module.py:235 and 243: the scan takes the tables PIP_TL_PCT_1 ..
\* PIP_TL_PCT_total in this order.
ScanStart(total) == 1
ScanNext(idx) == idx + 1

\* A merge that returns False: it leaves its db_executor thread.  why is the
\* message it logs (database_module.py:311 or 315).
Return(t, why) ==
    /\ lastReturn' = [id |-> t.id, ok |-> FALSE, why |-> why]
    /\ dbRunning' = dbRunning \ {t}

\* A db_executor thread takes the oldest queued merge and runs
\* update_table_with_cotas up to the scan (database_module.py:222-240).
DbTake ==
    /\ Len(dbQueue) > 0
    /\ Cardinality(dbRunning) < MAX_WORKERS
    /\ LET a == Head(dbQueue)
       IN IF ValidLot(a.qtd, a.lote)
          THEN /\ dbRunning' = dbRunning \cup
                      {[id |-> a.id, path |-> a.path, att |-> a.att, vals |-> a.vals,
                        rem |-> a.rem, op |-> a.op,
                        total |-> Total(a.qtd[1], a.lote[1]), ph |-> "scan",
                        idx |-> ScanStart(Total(a.qtd[1], a.lote[1])),
                        row |-> NoRow, alone |-> TRUE]}
               /\ UNCHANGED lastReturn
          ELSE /\ lastReturn' = [id |-> a.id, ok |-> FALSE, why |-> "invalid"]
               /\ UNCHANGED dbRunning
    /\ dbQueue' = Tail(dbQueue)
    /\ UNCHANGED <<dbShutdown, nMerges, shards, pipeVars>>
    /\ UNCHANGED srvVars

\* database_module.py:243-248 and 311-312: one SELECT of the scan.  A table
\* that does not exist makes execute raise (caught at 314).
MergeFetch(t) ==
    /\ t.ph = "scan"
    /\ IF t.idx \notin Shards
       THEN Return(t, "error")
       ELSE IF Eligible(shards[t.idx], SampleSize)
       THEN /\ dbRunning' = (dbRunning \ {t}) \cup
                   {[t EXCEPT !.ph = "write", !.row = shards[t.idx]]}
            /\ UNCHANGED lastReturn
       ELSE IF t.idx < t.total
       THEN /\ dbRunning' = (dbRunning \ {t}) \cup {[t EXCEPT !.idx = ScanNext(@)]}
            /\ UNCHANGED lastReturn
       ELSE Return(t, "nomatch")
    /\ UNCHANGED <<shards, execVars, pipeVars>>
    /\ UNCHANGED srvVars

\* database_module.py:249-309: the update of the fetched shard, committed, and
\* return True.  alone records, for every other running merge, that the store
\* changed while it ran.
MergeWrite(t) ==
    /\ t.ph = "write"
    /\ \E j \in InspWrites(t.row.insp, t.op) :
          shards' = [shards EXCEPT ![t.idx] =
                        ApplyUpdate(@, UpdateValues(t.row, t.vals, t.rem, j))]
    /\ lastReturn' = [id |-> t.id, ok |-> TRUE, why |-> "updated"]
    /\ dbRunning' = {[u EXCEPT !.alone = FALSE] : u \in dbRunning \ {t}}
    /\ UNCHANGED <<execVars, pipeVars>>
    /\ UNCHANGED srvVars

\* database_module.py:314-316: a statement or the connection raises; the merge
\* logs and returns False, nothing is committed.
MergeError(t) ==
    /\ Return(t, "error")
    /\ UNCHANGED <<shards, execVars, pipeVars>>
    /\ UNCHANGED srvVars

\* update_table_async (database_module.py:328-358) called with any arguments.
SubmitMerge(vals, ql, rem, op) ==
    /\ nMerges < MaxMerges
    /\ ~dbShutdown
    /\ dbQueue' = Append(dbQueue, [id |-> nMerges + 1, path |-> "a.json", att |-> 0,
                                   vals |-> vals, qtd |-> ql[1], lote |-> ql[2],
                                   rem |-> rem, op |-> op])
    /\ nMerges' = nMerges + 1
    /\ UNCHANGED <<dbShutdown, mergeVars, pipeVars>>
    /\ UNCHANGED srvVars

\* process_file_update, main.py:268-277: what it returns once both lookups
\* have succeeded; result is the value of update_table_with_cotas, which only
\* the synchronous branch waits for.
UpdateReturn(use_async, result) == IF use_async THEN TRUE ELSE result

\* -------------------------------------------- socket server: clients
\* start_socket_server, socket_server.py:212-221: a connection is accepted
\* and its handle_client thread started.
Accept(a) ==
    /\ hpc[a] = "idle"
    /\ hpc' = [hpc EXCEPT ![a] = "recv_name"]
    /\ UNCHANGED <<cname, registryVars, socketVars, senderVars, noteVars, coreVars>>

\* The client end of a connection goes away (close, reset, crash).
PeerClose(a) ==
    /\ hpc[a] # "idle"
    /\ a \notin peerGone
    /\ peerGone' = peerGone \cup {a}
    /\ UNCHANGED <<closed, registryVars, handlerVars, senderVars, noteVars, coreVars>>

\* handle_client, socket_server.py:134-136: the name arrives.
RecvName(a, n) ==
    /\ hpc[a] = "recv_name"
    /\ a \notin peerGone
    /\ hpc' = [hpc EXCEPT ![a] = "register"]
    /\ cname' = [cname EXCEPT ![a] = n]
    /\ UNCHANGED <<registryVars, socketVars, senderVars, noteVars, coreVars>>

\* handle_client, socket_server.py:135 and 186-189: no name within 5 s, or the
\* connection is lost; control goes to the finally block.
RecvNameFails(a) ==
    /\ hpc[a] = "recv_name"
    /\ hpc' = [hpc EXCEPT ![a] = "finally"]
    /\ UNCHANGED <<cname, registryVars, socketVars, senderVars, noteVars, coreVars>>

\* The connection handle_client closes for a duplicate name
\* (socket_server.py:140-149), if any.
Evicted(a, n) ==
    IF /\ n \in DOMAIN name_to_addr
       /\ name_to_addr[n] \in DOMAIN client_connections
       /\ name_to_addr[n] # a
    THEN {client_connections[name_to_addr[n]]}
    ELSE {}

\* handle_client, the block under the lock (socket_server.py:138-157).
Register(a) ==
    /\ hpc[a] = "register"
    /\ closed' = closed \cup Evicted(a, cname[a])
    /\ client_queues' = Set(client_queues, a, <<>>)
    /\ client_names' = Set(client_names, a, cname[a])
    /\ client_connections' = Set(client_connections, a, a)
    /\ name_to_addr' = Set(name_to_addr, cname[a], a)
    /\ since' = [since EXCEPT ![a] = nCalls]
    /\ hpc' = [hpc EXCEPT ![a] = "start"]
    /\ UNCHANGED <<cname, peerGone, senderVars, delivered, nCalls, callBudget, mailsize, lastNotify, coreVars>>

\* handle_client, socket_server.py:162-167: the sender thread is started.
StartSender(a) ==
    /\ hpc[a] = "start"
    /\ hpc' = [hpc EXCEPT ![a] = "loop"]
    /\ spc' = [spc EXCEPT ![a] = "get"]
    /\ UNCHANGED <<cname, smsg, registryVars, socketVars, noteVars, coreVars>>

\* handle_client, socket_server.py:170-184: recv returns b"" or raises
\* because the peer is gone or the socket was closed; the loop ends.
ReadEnds(a) ==
    /\ hpc[a] = "loop"
    /\ a \in peerGone \cup closed
    /\ hpc' = [hpc EXCEPT ![a] = "finally"]
    /\ UNCHANGED <<cname, registryVars, socketVars, senderVars, noteVars, coreVars>>

\* handle_client, the finally block (socket_server.py:192-199): conn.close(),
\* nothing else.
HandlerFinally(a) ==
    /\ hpc[a] = "finally"
    /\ hpc' = [hpc EXCEPT ![a] = "done"]
    /\ closed' = closed \cup {a}
    /\ UNCHANGED <<cname, peerGone, registryVars, senderVars, noteVars, coreVars>>

\* sender_thread, socket_server.py:84: message_queue.get(timeout=0.5) hands
\* out the oldest message, or raises queue.Empty after the timeout.
SenderGet(a) ==
    /\ spc[a] = "get"
    /\ IF client_queues[a] # <<>>
       THEN /\ smsg' = [smsg EXCEPT ![a] = Dequeue(client_queues[a]).item]
            /\ client_queues' = [client_queues EXCEPT ![a] = Dequeue(@).rest]
            /\ spc' = [spc EXCEPT ![a] = "send"]
       ELSE /\ spc' = [spc EXCEPT ![a] = "empty"]
            /\ UNCHANGED <<smsg, client_queues>>
    /\ UNCHANGED <<client_names, client_connections, name_to_addr>>
    /\ UNCHANGED <<socketVars, handlerVars, noteVars, coreVars>>

\* sender_thread, socket_server.py:97-99: except queue.Empty: continue.
SenderContinue(a) ==
    /\ spc[a] = "empty"
    /\ spc' = [spc EXCEPT ![a] = "get"]
    /\ UNCHANGED <<smsg, registryVars, socketVars, handlerVars, noteVars, coreVars>>

\* sender_thread, socket_server.py:90-103: sendall.  On a socket the server
\* closed it raises; when the peer is gone it raises or the bytes go into
\* the send buffer and are lost; otherwise the client gets the message.
SenderSend(a) ==
    /\ spc[a] = "send"
    /\ \E fails \in BOOLEAN :
          /\ a \in closed => fails
          /\ fails => a \in closed \cup peerGone
          /\ spc' = [spc EXCEPT ![a] = IF fails THEN "cleanup" ELSE "get"]
          /\ delivered' = IF fails \/ a \in peerGone THEN delivered
                          ELSE [delivered EXCEPT ![a] = Append(@, smsg[a])]
    /\ UNCHANGED <<smsg, registryVars, socketVars, handlerVars, nCalls, callBudget, mailsize, since, lastNotify>>
    /\ UNCHANGED coreVars

\* Variant of the test that never finds the name.
OwnsName_Never(a) == FALSE
\* Variant of the test that does not look at the connection the name maps to.
OwnsName_Any(a) == client_names[a] \in DOMAIN name_to_addr
\* socket_server.py:123: the name of connection a still maps to a.
OwnsName(a) ==
    /\ client_names[a] \in DOMAIN name_to_addr
    /\ name_to_addr[client_names[a]] = a

\* sender_thread, the block under the lock (socket_server.py:112-124).
SenderCleanup(a) ==
    /\ spc[a] = "cleanup"
    /\ spc' = [spc EXCEPT ![a] = "done"]
    /\ IF a \in DOMAIN client_names
       THEN /\ client_names' = Del(client_names, a)
            /\ client_queues' = Del(client_queues, a)
            /\ client_connections' = Del(client_connections, a)
            /\ name_to_addr' = IF OwnsName(a) THEN Del(name_to_addr, client_names[a])
                                             ELSE name_to_addr
       ELSE UNCHANGED registryVars
    /\ UNCHANGED <<smsg, socketVars, handlerVars, noteVars, coreVars>>

\* ------------------------------------------------------- specifications
FreshRow == [NoRow EXCEPT !.present = TRUE]
\* Store contents SpecMerge starts from: per shard no row, or a row with any
\* count up to the sample size and its dimension unset.
InitRows == {NoRow} \cup {[FreshRow EXCEPT !.medicao = m] : m \in 0..SampleSize}

InitPipe ==
    /\ processing_timers = [p \in Paths |-> NoTimer]
    /\ processing_files = {}
    /\ processing_queue = <<>>
    /\ unfinished_tasks = 0
    /\ stop_event = FALSE
    /\ observer = TRUE
    /\ timers = {}
    /\ wpc = [w \in Workers |-> "loop"]
    /\ wcur = [w \in Workers |-> NoItem]
    /\ wres = [w \in Workers |-> "none"]
    /\ wfile = [w \in Workers |-> NoFile]
    /\ wdid = [w \in Workers |-> {}]
    /\ files_processed = 0
    /\ processing_errors = 0
    /\ cpc = "idle"
    /\ cruns = 0
    /\ nEvents = 0
    /\ lastTimer = [p \in Paths |-> NoTimer]
    /\ calls = [p \in Paths |-> <<>>]
    /\ nAccepted = 0
    /\ nStarted = 0
    /\ lastSubmit = [path |-> "", res |-> "none"]

InitServer ==
    /\ client_queues = <<>>
    /\ client_names = <<>>
    /\ client_connections = <<>>
    /\ name_to_addr = <<>>
    /\ closed = {}
    /\ peerGone = {}
    /\ hpc = [a \in Addrs |-> "idle"]
    /\ cname = [a \in Addrs |-> ""]
    /\ spc = [a \in Addrs |-> "off"]
    /\ smsg = [a \in Addrs |-> [id |-> 0, kind |-> "none"]]
    /\ delivered = [a \in Addrs |-> <<>>]
    /\ nCalls = 0
    /\ since = [a \in Addrs |-> 0]
    /\ lastNotify = [id |-> 0, kind |-> "none", target |-> "", res |-> "none"]

InitExec ==
    /\ dbShutdown = FALSE
    /\ dbQueue = <<>>
    /\ dbRunning = {}
    /\ nMerges = 0
    /\ lastReturn = [id |-> 0, ok |-> FALSE, why |-> "none"]

Init ==
    /\ InitPipe
    /\ maxsize \in QueueSizes
    /\ eventBudget = MaxEvents
    /\ InitExec
    /\ shards = [s \in Shards |-> FreshRow]
    /\ InitServer
    /\ callBudget = 0
    /\ mailsize = MailboxSize

NextPipe ==
    \/ \E p \in Paths : HandleFileEvent(p)
    \/ \E t \in timers : TimerFire(t)
    \/ \E t \in timers : QueueClearTimer(t)
    \/ \E t \in timers : QueueMarkInFlight(t)
    \/ \E t \in timers : QueuePut(t)
    \/ \E t \in timers : QueueFull(t)
    \/ \E w \in Workers : WorkerLoop(w)
    \/ \E w \in Workers : WorkerGet(w)
    \/ \E w \in Workers : WorkerRun(w)
    \/ \E w \in Workers : WorkerFinally(w)
    \/ \E w \in Workers : WorkerTaskDone(w)
    \/ CleanupSignal
    \/ CleanupDbShutdown
    \/ CleanupFinish
    \/ MonitorStop

NextExec ==
    \/ DbTake
    \/ \E t \in dbRunning : MergeFetch(t)
    \/ \E t \in dbRunning : MergeWrite(t)
    \/ \E t \in dbRunning : MergeError(t)

\* The pipeline.  The merges the workers hand to db_executor stay queued: its
\* threads write no variable of the pipeline, and are left out of Next.
Next == NextPipe

Spec == Init /\ [][Next]_vars

\* The pipeline together with the db_executor threads.
NextFlow == NextPipe \/ NextExec

SpecFlow == Init /\ [][NextFlow]_vars

InitMerge ==
    /\ InitPipe
    /\ maxsize = 1
    /\ eventBudget = 0
    /\ InitExec
    /\ shards \in [Shards -> InitRows]
    /\ InitServer
    /\ callBudget = 0
    /\ mailsize = MailboxSize

NextMerge ==
    \/ \E vals \in ValueLists, ql \in QtdLote :
          SubmitMerge(vals, ql, NoRemarks, Some(<<"ana">>))
    \/ NextExec

SpecMerge == InitMerge /\ [][NextMerge]_vars

NextLot ==
    \/ \E ql \in LotInputs : SubmitMerge(<<1>>, ql, NoRemarks, Some(<<"ana">>))
    \/ NextExec

\* update_table_async called with any remarks and operator, for a load index
\* with one shard.
NextFields ==
    \/ \E rem \in RemInputs, op \in Operators :
          SubmitMerge(<<1>>, <<Some(1), Some(1)>>, rem, op)
    \/ NextExec

\* update_table_async called with one value and any QTD and TAM_LOTE.
InitLot ==
    /\ InitPipe
    /\ maxsize = 1
    /\ eventBudget = 0
    /\ InitExec
    /\ shards = [s \in Shards |-> FreshRow]
    /\ InitServer
    /\ callBudget = 0
    /\ mailsize = MailboxSize

SpecLot == InitLot /\ [][NextLot]_vars

SpecFields == InitLot /\ [][NextFields]_vars

\* update_table_async called for a load index with one shard whose record is
\* new (count 0, dimension unset), each call made after the merge of the call
\* before it has returned: a single writer.
SubmitAfterReturn(vals) ==
    /\ dbQueue = <<>>
    /\ dbRunning = {}
    /\ SubmitMerge(vals, <<Some(1), Some(1)>>, NoRemarks, Some(<<"ana">>))

NextSingle ==
    \/ \E vals \in ValueLists : SubmitAfterReturn(vals)
    \/ NextExec

SpecSingle == InitLot /\ [][NextSingle]_vars

\* The socket server: clients connect, register and disconnect, and
\* notify_clients and notify_specific_client are called with any arguments.
NextServer ==
    \/ \E data \in LraData : NotifyClients(data)
    \/ \E n \in Names : NotifySpecific(n)
    \/ \E a \in Addrs : Accept(a)
    \/ \E a \in Addrs : PeerClose(a)
    \/ \E a \in Addrs, n \in Names : RecvName(a, n)
    \/ \E a \in Addrs : RecvNameFails(a)
    \/ \E a \in Addrs : Register(a)
    \/ \E a \in Addrs : StartSender(a)
    \/ \E a \in Addrs : ReadEnds(a)
    \/ \E a \in Addrs : HandlerFinally(a)
    \/ \E a \in Addrs : SenderGet(a)
    \/ \E a \in Addrs : SenderContinue(a)
    \/ \E a \in Addrs : SenderSend(a)
    \/ \E a \in Addrs : SenderCleanup(a)

InitNotify ==
    /\ InitPipe
    /\ maxsize = 1
    /\ eventBudget = 0
    /\ InitExec
    /\ shards = [s \in Shards |-> FreshRow]
    /\ InitServer
    /\ callBudget = MaxCalls
    /\ mailsize = MailboxSize

SpecServer == InitNotify /\ [][NextServer]_vars

\* The socket server with mailboxes that hold two messages.
InitOrder ==
    /\ InitPipe
    /\ maxsize = 1
    /\ eventBudget = 0
    /\ InitExec
    /\ shards = [s \in Shards |-> FreshRow]
    /\ InitServer
    /\ callBudget = MaxCalls
    /\ mailsize = WideMailbox

SpecOrder == InitOrder /\ [][NextServer]_vars

\* The socket server with one notify call, its threads scheduled fairly:
\* every step a handle_client or sender thread can take, it takes in the end.
\* The clients and the callers of notify are under no such obligation.
InitTeardown ==
    /\ InitPipe
    /\ maxsize = 1
    /\ eventBudget = 0
    /\ InitExec
    /\ shards = [s \in Shards |-> FreshRow]
    /\ InitServer
    /\ callBudget = 1
    /\ mailsize = MailboxSize

ServerFairness ==
    \A a \in Addrs :
        /\ WF_vars(Register(a))
        /\ WF_vars(StartSender(a))
        /\ WF_vars(ReadEnds(a))
        /\ WF_vars(HandlerFinally(a))
        /\ WF_vars(SenderGet(a))
        /\ WF_vars(SenderContinue(a))
        /\ WF_vars(SenderSend(a))
        /\ WF_vars(SenderCleanup(a))

SpecTeardown == InitTeardown /\ [][NextServer]_vars /\ ServerFairness

\* The pipeline with one queue capacity, and its threads scheduled fairly.
InitFair ==
    /\ InitPipe
    /\ maxsize = 1
    /\ eventBudget = MaxEvents
    /\ InitExec
    /\ shards = [s \in Shards |-> FreshRow]
    /\ InitServer
    /\ callBudget = 0
    /\ mailsize = MailboxSize

\* The worker threads take every step they can take in the end; the observer,
\* the timers and cleanup are under no such obligation.
WorkerFairness ==
    \A w \in Workers :
        /\ WF_vars(WorkerLoop(w))
        /\ WF_vars(WorkerGet(w))
        /\ WF_vars(WorkerRun(w))
        /\ WF_vars(WorkerFinally(w))
        /\ WF_vars(WorkerTaskDone(w))

SpecWorkers == InitFair /\ [][NextPipe]_vars /\ WorkerFairness

\* The main thread inside cleanup and the db_executor threads take every step
\* they can take in the end; the workers, the timers and the observer are
\* under no such obligation, and cleanup need not be invoked at all.
ShutdownFairness ==
    /\ WF_vars(CleanupDbShutdown)
    /\ WF_vars(CleanupFinish)
    /\ WF_vars(NextExec)

\* The pipeline and the db_executor threads with one file notification.
InitShutdown ==
    /\ InitPipe
    /\ maxsize = 1
    /\ eventBudget = 1
    /\ InitExec
    /\ shards = [s \in Shards |-> FreshRow]
    /\ InitServer
    /\ callBudget = 0
    /\ mailsize = MailboxSize

\* With one notification the queue never holds more than one item, so the
\* queue.Full handler has nothing to do and is left out.
NextShutdown ==
    \/ \E p \in Paths : HandleFileEvent(p)
    \/ \E t \in timers : TimerFire(t)
    \/ \E t \in timers : QueueClearTimer(t)
    \/ \E t \in timers : QueueMarkInFlight(t)
    \/ \E t \in timers : QueuePut(t)
    \/ \E w \in Workers : WorkerLoop(w)
    \/ \E w \in Workers : WorkerGet(w)
    \/ \E w \in Workers : WorkerRun(w)
    \/ \E w \in Workers : WorkerFinally(w)
    \/ \E w \in Workers : WorkerTaskDone(w)
    \/ CleanupSignal
    \/ CleanupDbShutdown
    \/ CleanupFinish
    \/ MonitorStop
    \/ NextExec

SpecShutdown == InitShutdown /\ [][NextShutdown]_vars /\ ShutdownFairness

\* The debouncer alone: notifications, timers and their callbacks, with the
\* workers not scheduled.
InitIntake ==
    /\ InitPipe
    /\ maxsize = 1
    /\ eventBudget = MaxBurst
    /\ InitExec
    /\ shards = [s \in Shards |-> FreshRow]
    /\ InitServer
    /\ callBudget = 0
    /\ mailsize = MailboxSize

NextIntake ==
    \/ \E p \in Paths : HandleFileEvent(p)
    \/ \E t \in timers : TimerFire(t)
    \/ \E t \in timers : QueueClearTimer(t)
    \/ \E t \in timers : QueueMarkInFlight(t)
    \/ \E t \in timers : QueuePut(t)
    \/ \E t \in timers : QueueFull(t)

SpecIntake == InitIntake /\ [][NextIntake]_vars

\* ================================================================ claims
\* ----------------------------------------------------------------- C1
\* A burst of a path is a maximal run of notifications each of which arrives
\* while the timer of the previous one is still waiting; calls[p][b] counts
\* the calls of _queue_file_for_processing made by timers of burst b.
BurstOver(p, b) == ~\E t \in timers : t.path = p /\ t.b = b /\ t.st = "waiting"

\* C1: every burst of notifications on a path leads to exactly one call of
\* _queue_file_for_processing: never more than one, and one once no timer of
\* the burst is waiting any more.
C1_OneCallPerBurst ==
    \A p \in Paths : \A b \in 1..Len(calls[p]) :
        /\ calls[p][b] <= 1
        /\ BurstOver(p, b) => calls[p][b] = 1

\* ----------------------------------------------------------------- C2
Processing(w) == wpc[w] \in {"run", "finally"}
QueuedAt(p) == {i \in 1..Len(processing_queue) : processing_queue[i].path = p}
ProcessingOf(p) == {w \in Workers : Processing(w) /\ wcur[w].path = p}

\* C2: no path is, at the same time, twice among the queued paths and the
\* paths the workers are processing.
C2_AtMostOnceInFlight ==
    \A p \in Paths : Cardinality(QueuedAt(p)) + Cardinality(ProcessingOf(p)) <= 1

\* A submit of a.json has just been rejected as a duplicate while a.json is
\* queued or being processed.
C2_Witness ==
    /\ lastSubmit = [path |-> "a.json", res |-> "duplicate"]
    /\ Cardinality(QueuedAt("a.json")) + Cardinality(ProcessingOf("a.json")) = 1

\* ----------------------------------------------------------------- C3
\* C3: put_nowait on a queue at capacity raises at once (the callback goes on
\* to the queue.Full handler) and leaves the queue as it was; the handler
\* takes exactly the rejected path out of the in-flight set, and the callback
\* returns.
C3_FullRejects ==
    [][\A t \in timers :
          /\ (t.st = "cb_put" /\ Len(processing_queue) >= maxsize /\ t \notin timers')
                => /\ processing_queue' = processing_queue
                   /\ [t EXCEPT !.st = "cb_full"] \in timers'
                   /\ processing_files' = processing_files
          /\ (t.st = "cb_full" /\ t \notin timers')
                => /\ processing_queue' = processing_queue
                   /\ t.path \notin processing_files'
                   /\ processing_files' = processing_files \ {t.path}
                   /\ ~\E u \in timers' : u.id = t.id]_vars

\* The submit of b.json met a full queue and has returned; b.json is not in
\* flight and the queue still holds what it held.
C3_Witness ==
    /\ lastSubmit = [path |-> "b.json", res |-> "full"]
    /\ Len(processing_queue) = maxsize
    /\ "b.json" \notin processing_files
    /\ "b.json" \notin {processing_queue[i].path : i \in 1..Len(processing_queue)}

\* ----------------------------------------------------------------- C4
\* A path in the in-flight set is queued, being processed, or held by a submit
\* that has not returned yet.
Owned(p) ==
    \/ QueuedAt(p) # {}
    \/ ProcessingOf(p) # {}
    \/ \E t \in timers : t.path = p /\ t.st \in {"cb_put", "cb_full"}

\* C4: the step that ends process_file leaves the path outside the in-flight
\* set, whatever the outcome; and the in-flight set never keeps a path that
\* nothing holds, so a submit after the end of processing is not rejected as
\* a duplicate.
C4_FinishReleases ==
    /\ [][\A w \in Workers :
             (wpc[w] = "finally" /\ wpc'[w] # "finally")
                => wcur[w].path \notin processing_files']_vars
    /\ [](\A p \in processing_files : Owned(p))

\* A worker has ended process_file("a.json") with an exception, and a.json
\* has been submitted again and accepted since.
C4_Witness ==
    \E w \in Workers :
        /\ wpc[w] = "task_done"
        /\ wres[w] = "exc"
        /\ wcur[w].path = "a.json"
        /\ lastSubmit = [path |-> "a.json", res |-> "accepted"]
        /\ \E i \in QueuedAt("a.json") : processing_queue[i].seq > wcur[w].seq

\* ----------------------------------------------------------------- C5
\* The processing attempts of a path that are running: in a worker (parse,
\* lookup, notify) or as a merge on a db_executor thread.
RunningAttempts(p) ==
    {wcur[w].seq : w \in ProcessingOf(p)} \cup
    {t.att : t \in {u \in dbRunning : u.path = p}}

\* C5: a path stays in the in-flight set until its attempt, merge included, is
\* over, so that at no time two attempts of one path are running.
C5_OneAttemptPerPath ==
    \A p \in Paths : Cardinality(RunningAttempts(p)) <= 1

\* ----------------------------------------------------------------- C6
\* C6: the queue holds the accepted items that were not handed out yet, oldest
\* first, and every item a worker holds was handed out before them: items
\* leave the queue in the order in which they were accepted.
C6_Fifo ==
    /\ nStarted + Len(processing_queue) = nAccepted
    /\ \A i \in 1..Len(processing_queue) : processing_queue[i].seq = nStarted + i
    /\ \A w \in Workers : wpc[w] \in {"run", "finally", "task_done"}
                             => wcur[w].seq <= nStarted

\* Two items were queued together; a worker holds the first, the second waits.
C6_Witness ==
    /\ maxsize = 2
    /\ \E w \in Workers : wpc[w] = "run" /\ wcur[w].seq = 1
    /\ Len(processing_queue) = 1
    /\ processing_queue[1].seq = 2
    /\ nAccepted = 2

\* ----------------------------------------------------------------- C7
\* C7: once stop_event is set, no worker takes a further path from the queue.
C7_NoStartAfterStop ==
    [][stop_event => nStarted' = nStarted]_vars

\* ----------------------------------------------------------------- C8
\* The merge t returns in this step.
Returns(t) == ~\E u \in dbRunning' : u.id = t.id

\* The record of shard s can take a measurement.
Open(s) == s \in Shards /\ shards[s].present /\ shards[s].medicao < SampleSize

\* C8: the store changes only in the step in which a merge returns True, and
\* then in one shard only; a merge during which no other merge wrote updates
\* the lowest shard of 1..total whose record has medicao < amostragem.
C8_FirstFit ==
    [][/\ shards' # shards =>
            \E t \in dbRunning :
                /\ Returns(t)
                /\ lastReturn' = [id |-> t.id, ok |-> TRUE, why |-> "updated"]
                /\ \A s \in Shards \ {t.idx} : shards'[s] = shards[s]
       /\ \A t \in dbRunning :
            (Returns(t) /\ lastReturn'.ok /\ t.alone)
                =>            /\ shards'[t.idx] # shards[t.idx]
                              /\ t.idx \in 1..t.total
                              /\ Open(t.idx)
                              /\ \A s \in 1..(t.idx - 1) : ~Open(s)]_vars

\* Shard 1 is full and was never written, and the last merge updated shard 2.
C8_Witness ==
    /\ lastReturn.ok
    /\ shards[1].present /\ shards[1].medicao = SampleSize /\ shards[1].cmin[1] = 0
    /\ shards[2].present /\ shards[2].cmin[1] = 1

\* ----------------------------------------------------------------- C9
\* C9: a merge that returns True stores the count it fetched plus one (the
\* stored count plus one when no other merge wrote meanwhile) and, for every
\* position of the value list that has columns, the value itself where the
\* stored minimum (maximum) was zero, else the smaller (larger) of the stored
\* one and the value; the other dimensions keep their stored values.
C9_CountAndBounds ==
    [][\A t \in dbRunning :
          (Returns(t) /\ lastReturn'.ok) =>
              LET old == t.row
                  new == shards'[t.idx]
                  cur == shards[t.idx]
              IN /\ new.medicao = old.medicao + 1
                 /\ t.alone => new.medicao = cur.medicao + 1
                 /\ \A i \in Cotas :
                      IF i <= Len(t.vals)
                      THEN /\ new.cmin[i] =
                                 IF old.cmin[i] = 0 THEN t.vals[i]
                                 ELSE IF old.cmin[i] <= t.vals[i] THEN old.cmin[i]
                                 ELSE t.vals[i]
                           /\ new.cmax[i] =
                                 IF old.cmax[i] = 0 THEN t.vals[i]
                                 ELSE IF old.cmax[i] >= t.vals[i] THEN old.cmax[i]
                                 ELSE t.vals[i]
                      ELSE /\ new.cmin[i] = cur.cmin[i]
                           /\ new.cmax[i] = cur.cmax[i]]_vars

\* Two merges went into the record of shard 1: the first seeded the dimension,
\* the second moved one of its ends.
C9_Witness ==
    /\ lastReturn = [id |-> 2, ok |-> TRUE, why |-> "updated"]
    /\ shards[1].medicao = 2
    /\ shards[1].cmin[1] = 1
    /\ shards[1].cmax[1] = 2

\* ---------------------------------------------------------------- C10
\* C10: a merge during which no other merge wrote, and which returns while no
\* shard of 1..total has a record with medicao < amostragem, returns False and
\* writes nothing.
C10_NoMatch ==
    [][\A t \in dbRunning :
          (Returns(t) /\ t.alone /\ \A s \in 1..t.total : ~Open(s))
              => /\ lastReturn'.id = t.id
                 /\ ~lastReturn'.ok
                 /\ shards' = shards]_vars

\* Every shard holds a record with medicao = amostragem that was never
\* written, and the merge over both shards has reported "no record to update".
C10_Witness ==
    /\ lastReturn.why = "nomatch"
    /\ \A s \in Shards : /\ shards[s].present
                         /\ shards[s].medicao = SampleSize
                         /\ shards[s].cmin[1] = 0

\* ---------------------------------------------------------------- C11
\* n is the floor of q / l.
FloorIs(n, q, l) ==
    IF l > 0 THEN n * l <= q /\ q < (n + 1) * l
             ELSE n * l >= q /\ q > (n + 1) * l

\* C11: a merge whose QTD or TAM_LOTE is missing or zero returns False when a
\* db_executor thread takes it, with no SELECT and no UPDATE; any other merge
\* scans the tables 1..floor(QTD / TAM_LOTE) and no other one (none at all
\* when the floor is below one).
C11_ShardCount ==
    /\ [][Len(dbQueue') < Len(dbQueue) =>
            LET a == Head(dbQueue)
                started == {t \in dbRunning' : t.id = a.id}
            IN IF a.qtd = None \/ a.lote = None \/ a.qtd = Some(0) \/ a.lote = Some(0)
               THEN /\ started = {}
                    /\ shards' = shards
                    /\ lastReturn' = [id |-> a.id, ok |-> FALSE, why |-> "invalid"]
               ELSE /\ \A t \in started : FloorIs(t.total, a.qtd[1], a.lote[1])
                    /\ started = {} =>
                          /\ \E n \in -3..0 : FloorIs(n, a.qtd[1], a.lote[1])
                          /\ shards' = shards
                          /\ ~lastReturn'.ok]_vars
    /\ [](\A t \in dbRunning : t.idx \in 1..t.total)

\* The first merge had no QTD, or a zero one, and was rejected; the second
\* has a quotient of 1.5 and scans one table.
C11_Witness ==
    /\ lastReturn = [id |-> 1, ok |-> FALSE, why |-> "invalid"]
    /\ \E t \in dbRunning : t.id = 2 /\ t.total = 1 /\ t.idx = 1

\* ---------------------------------------------------------------- C12
\* C12: the write of a merge leaves every remark column whose argument is
\* None as it is stored, and sets every other remark column to its argument;
\* no other step changes a remark column.
C12_SparseRemarks ==
    [][/\ \A t \in dbRunning :
            (Returns(t) /\ lastReturn'.ok) =>
                \A f \in RemFields :
                    shards'[t.idx].rem[f] =
                        IF t.rem[f] = None THEN shards[t.idx].rem[f] ELSE t.rem[f]
       /\ \A s \in Shards : \A f \in RemFields :
            shards'[s].rem[f] # shards[s].rem[f] =>
                \E t \in dbRunning :
                    Returns(t) /\ lastReturn'.ok /\ t.idx = s /\ t.rem[f] # None]_vars

\* The first merge stored all three remarks; the second, with rem_a only,
\* replaced rem_a and left rem_b and atrib as stored.
C12_Witness ==
    /\ lastReturn = [id |-> 2, ok |-> TRUE, why |-> "updated"]
    /\ shards[1].rem["rem_a"] = Some("r1")
    /\ shards[1].rem["rem_b"] = Some("r2")
    /\ shards[1].rem["atrib"] = Some("")

\* ---------------------------------------------------------------- C13
\* The inspectors an INSP text names.
InspSet(insp) == {insp[i] : i \in 1..Len(insp)}

\* C13: the write of a merge keeps every inspector the record holds, adds at
\* most the operator of the merge, and adds nothing when the operator is
\* among the inspectors already.
C13_InspectorSet ==
    [][\A t \in dbRunning :
          (Returns(t) /\ lastReturn'.ok) =>
              LET old == InspSet(shards[t.idx].insp)
                  new == InspSet(shards'[t.idx].insp)
                  op == IF t.op = None THEN {} ELSE InspSet(t.op[1])
              IN /\ old \subseteq new
                 /\ new \subseteq old \cup op
                 /\ op \subseteq old => new = old]_vars

\* The same, for a merge during which no other merge wrote.
C13_Alone ==
    [][\A t \in dbRunning :
          (Returns(t) /\ lastReturn'.ok /\ t.alone) =>
              LET old == InspSet(shards[t.idx].insp)
                  new == InspSet(shards'[t.idx].insp)
                  op == IF t.op = None THEN {} ELSE InspSet(t.op[1])
              IN /\ old \subseteq new
                 /\ new \subseteq old \cup op
                 /\ op \subseteq old => new = old]_vars

\* ---------------------------------------------------------------- C14
\* A registration whose name now maps to another connection.
Superseded(a) ==
    /\ a \in DOMAIN client_names
    /\ client_names[a] \in DOMAIN name_to_addr
    /\ name_to_addr[client_names[a]] # a

\* This step is a call of notify_clients that made its pass.
Broadcast == lastNotify' = [id |-> nCalls + 1, kind |-> "broadcast",
                            target |-> "", res |-> "passed"]

\* C14: no two registrations hold the same name, and a broadcast puts nothing
\* into the mailbox of a registration that a later one with the same name has
\* replaced.
C14_OneRegistrationPerName ==
    /\ [](\A a \in DOMAIN client_names : \A b \in DOMAIN client_names :
             client_names[a] = client_names[b] => a = b)
    /\ [][Broadcast =>
             \A a \in DOMAIN client_queues :
                 Superseded(a) => client_queues'[a] = client_queues[a]]_vars

\* ---------------------------------------------------------------- C15
\* The messages of a mailbox.
Queued(q) == {q[i] : i \in 1..Len(q)}
\* Every message connection a was handed from its mailbox or still has in it.
Mail(a) ==
    (IF a \in DOMAIN client_queues THEN Queued(client_queues[a]) ELSE {})
    \cup (IF spc[a] = "send" THEN {smsg[a]} ELSE {})
    \cup Queued(delivered[a])

\* C15: a broadcast is one step; it leaves the registry as it is and puts the
\* message into the mailbox of every registered connection that has room;
\* and no connection ever holds a message of a call made before its
\* registration was installed.
C15_BroadcastOnePass ==
    /\ [][Broadcast =>
             /\ DOMAIN client_queues' = DOMAIN client_queues
             /\ UNCHANGED <<client_names, client_connections, name_to_addr>>
             /\ \A a \in DOMAIN client_queues :
                   Len(client_queues[a]) < MailboxSize =>
                       client_queues'[a] =
                           Append(client_queues[a],
                                  [id |-> nCalls + 1, kind |-> "broadcast"])]_vars
    /\ [](\A a \in Addrs : \A m \in Mail(a) : m.id > since[a])

\* Connection c1 holds the first broadcast; c2 registered after it and holds
\* nothing.
C15_Witness ==
    /\ lastNotify = [id |-> 1, kind |-> "broadcast", target |-> "", res |-> "passed"]
    /\ "c1" \in DOMAIN client_queues /\ "c2" \in DOMAIN client_queues
    /\ client_queues["c1"] = <<[id |-> 1, kind |-> "broadcast"]>>
    /\ since["c2"] = 1
    /\ Mail("c2") = {}

\* ---------------------------------------------------------------- C16
\* C16: no mailbox ever holds more than its capacity; a notify call is one
\* step that leaves a full mailbox as it is and adds at most one message to
\* any other, and a broadcast reaches every mailbox that has room.
C16_MailboxBounded ==
    /\ [](\A a \in DOMAIN client_queues : Len(client_queues[a]) <= MailboxSize)
    /\ [][nCalls' = nCalls + 1 =>
             \A a \in DOMAIN client_queues :
                 /\ a \in DOMAIN client_queues'
                 /\ Len(client_queues[a]) >= MailboxSize
                       => client_queues'[a] = client_queues[a]
                 /\ Len(client_queues'[a]) <= Len(client_queues[a]) + 1
                 /\ (Broadcast /\ Len(client_queues[a]) < MailboxSize)
                       => [id |-> nCalls + 1, kind |-> "broadcast"]
                             \in Queued(client_queues'[a])]_vars

\* The second broadcast met the full mailbox of c1, which keeps the first
\* message only, and went into the mailbox of c2.
C16_Witness ==
    /\ lastNotify = [id |-> 2, kind |-> "broadcast", target |-> "", res |-> "passed"]
    /\ "c1" \in DOMAIN client_queues /\ "c2" \in DOMAIN client_queues
    /\ client_queues["c1"] = <<[id |-> 1, kind |-> "broadcast"]>>
    /\ client_queues["c2"] = <<[id |-> 2, kind |-> "broadcast"]>>
    /\ since["c1"] = 0 /\ since["c2"] = 0

\* ---------------------------------------------------------------- C17
\* C17: notify_specific_client for a name that name_to_addr does not hold
\* changes no mailbox and no registry dict and logs "not found"; and no
\* connection holds a targeted message of a call made before it registered.
C17_UnknownTarget ==
    /\ [][\A n \in Names :
             (/\ nCalls' = nCalls + 1
              /\ lastNotify'.kind = "targeted"
              /\ lastNotify'.target = n
              /\ n \notin DOMAIN name_to_addr)
                 => /\ UNCHANGED registryVars
                    /\ lastNotify'.res = "notfound"]_vars
    /\ [](\A a \in Addrs : \A m \in Mail(a) :
             m.kind = "targeted" => m.id > since[a])

\* A notification for m2 found no client; a client then registered as m2
\* and has an empty mailbox.
C17_Witness ==
    /\ lastNotify = [id |-> 1, kind |-> "targeted", target |-> "m2", res |-> "notfound"]
    /\ \E a \in DOMAIN client_names :
          /\ client_names[a] = "m2"
          /\ since[a] = 1
          /\ Mail(a) = {}

\* ---------------------------------------------------------------- C18
Registered(a) == a \in DOMAIN client_names

\* C18: a registration whose client has closed the connection is removed in
\* the end, whether or not a message is sent to it.
C18_PeerCloseRemoves ==
    \A a \in Addrs : (Registered(a) /\ a \in peerGone) ~> ~Registered(a)


\* ---------------------------------------------------------------- C19
\* The worker's step through process_file for the file it read.
Processes(w) == wpc[w] = "run" /\ wpc'[w] = "finally"

\* C19: when process_file reads a file that cannot be parsed, or has no
\* machine id, or has no dimensional values, the step adds exactly one to the
\* processing-error counter, makes no store lookup, hands no merge to the
\* executor and calls neither notify function: the server state is untouched.
C19_IncompleteFileFailsFast ==
    [][\A w \in Workers :
          (Processes(w) /\ ~Usable(Extract(wfile'[w]))) =>
              /\ processing_errors' = processing_errors + 1
              /\ wdid'[w] = {}
              /\ dbQueue' = dbQueue /\ nMerges' = nMerges
              /\ nCalls' = nCalls /\ lastNotify' = lastNotify
              /\ client_queues' = client_queues]_vars

\* A worker has been through process_file with a file that is not JSON, and
\* another file without a machine id was counted before it.
C19_Witness ==
    /\ \E w \in Workers : wpc[w] = "finally" /\ ~wfile[w].json /\ wdid[w] = {}
    /\ processing_errors = 2
    /\ files_processed = 2
    /\ nCalls = 0

\* ---------------------------------------------------------------- C20
\* C20 as the specification states it: a file with correction entries that
\* process_file works through without an exception is handed to the socket
\* server by exactly one call, notify_specific_client for its machine id when
\* it has one, notify_clients when it has none.
C20_HandedOnce ==
    [][\A w \in Workers :
          (/\ Processes(w)
           /\ wres'[w] # "exc"
           /\ wfile'[w].json
           /\ Numeric(wfile'[w].medidas) # <<>>) =>
              /\ nCalls' = nCalls + 1
              /\ lastNotify'.kind = (IF wfile'[w].machine = None
                                     THEN "broadcast" ELSE "targeted")
              /\ (wfile'[w].machine # None
                     => lastNotify'.target = wfile'[w].machine[1])]_vars

\* ---------------------------------------------------------------- C21
\* C21 as the specification states it: when a merge ends on an error of the
\* store (database_module.py:314-316), the process_file_update call that
\* scheduled it (process_file calls it with use_async=True, main.py:300) has
\* not returned True for it, and the store is as it was.
C21_ErrorSurfaced ==
    [][\A t \in dbRunning :
          (Returns(t) /\ lastReturn'.id = t.id /\ lastReturn'.why = "error") =>
              /\ ~UpdateReturn(TRUE, lastReturn'.ok)
              /\ shards' = shards]_vars

\* ---------------------------------------------------------------- C22
\* C22 as the specification states it: in every step, whatever merges run
\* side by side, no record's medicao goes down, and a merge that returns True
\* leaves the medicao of the record it wrote one above what it was.
C22_CountMonotonic ==
    [][/\ \A s \in Shards : shards'[s].medicao >= shards[s].medicao
       /\ \A t \in dbRunning :
            (Returns(t) /\ lastReturn'.ok)
                => shards'[t.idx].medicao = shards[t.idx].medicao + 1]_vars

\* ---------------------------------------------------------------- C28
\* The scan of merge t stops in this step: its SELECT returned a row.
Selects(t) == t.ph = "scan" /\ \E u \in dbRunning' : u.id = t.id /\ u.ph = "write"

\* C28: whatever merges run side by side, no record's medicao is ever above
\* the sample size; the record a scan stops at has medicao below the sample
\* size when it is read, and the count a merge writes is at most the sample
\* size.
C28_CountBounded ==
    /\ [](\A s \in Shards : shards[s].medicao <= SampleSize)
    /\ [][\A t \in dbRunning :
             /\ Selects(t) => shards[t.idx].medicao < SampleSize
             /\ (Returns(t) /\ lastReturn'.ok)
                   => /\ t.row.medicao < SampleSize
                      /\ shards'[t.idx].medicao <= SampleSize]_vars

\* Two merges read the same record one below the sample size; one has
\* written, the record is full, and the other is about to write it again.
C28_Witness ==
    \E t \in dbRunning :
        /\ t.ph = "write"
        /\ ~t.alone
        /\ t.row.medicao = SampleSize - 1
        /\ shards[t.idx].medicao = SampleSize
        /\ lastReturn.ok

\* ---------------------------------------------------------------- C29
\* C29 as the specification states it: with one merge at a time into a record
\* that was new, the first merge stores its value as minimum and maximum of
\* the dimension, and every later one leaves the smaller of stored minimum
\* and value and the larger of stored maximum and value: the stored ends are
\* the minimum and the maximum of all values merged.
C29_MinMaxOfAll ==
    [][\A t \in dbRunning :
          (Returns(t) /\ lastReturn'.ok) =>
              \A i \in Updated(t.vals) :
                  LET old == shards[t.idx]
                      new == shards'[t.idx]
                  IN IF old.medicao = 0
                     THEN new.cmin[i] = t.vals[i] /\ new.cmax[i] = t.vals[i]
                     ELSE /\ new.cmin[i] = MinOf(old.cmin[i], t.vals[i])
                          /\ new.cmax[i] = MaxOf(old.cmax[i], t.vals[i])]_vars

\* ---------------------------------------------------------------- C23
\* The timers of path p that can still submit it: not cancelled and still
\* waiting for the delay, or inside _queue_file_for_processing before the
\* outcome of the submission is decided.
Live(p) == {t \in timers : t.path = p /\ t.st \in {"waiting", "cb_timer", "cb_files", "cb_put"}}
\* The timers of path p whose delay has not elapsed and that were not cancelled.
Pending(p) == {t \in timers : t.path = p /\ t.st = "waiting"}

\* C23 as the specification states it: in every reachable state a path has at
\* most one timer that can still submit it, so a new timer never stands next
\* to an earlier one of its path that is pending or has started its callback.
C23_OneLiveTimer == \A p \in Paths : Cardinality(Live(p)) <= 1

\* The weaker statement, about pending timers only; it fails as well, with
\* three notifications.
C23_OnePendingTimer == \A p \in Paths : Cardinality(Pending(p)) <= 1

\* ---------------------------------------------------------------- C24
\* What the server holds for connection b: its entries in the three
\* dictionaries, the names that map to it, the messages it was sent, and the
\* positions of its two threads.
ClientState(b) ==
    [queue |-> IF b \in DOMAIN client_queues THEN Some(client_queues[b]) ELSE None,
     name |-> IF b \in DOMAIN client_names THEN Some(client_names[b]) ELSE None,
     conn |-> b \in DOMAIN client_connections,
     names |-> {n \in DOMAIN name_to_addr : name_to_addr[n] = b},
     delivered |-> delivered[b],
     open |-> b \notin closed,
     threads |-> <<hpc[b], spc[b], smsg[b]>>]

\* The sender thread of connection a goes through its error handler or its
\* teardown in this step.
TearsDown(a) ==
    \/ spc[a] = "send" /\ spc'[a] = "cleanup"
    \/ spc[a] = "cleanup" /\ spc'[a] = "done"

C27_NoIntakeAfterStop ==
    [][stop_event =>
          /\ processing_files' \subseteq processing_files
          /\ nAccepted' = nAccepted]_vars

\* ---------------------------------------------------------------- C25
\* The item accepted as number n has been dequeued and process_file has
\* returned for it, its finally block included.
Finished(n) ==
    /\ nStarted >= n
    /\ \A w \in Workers : wcur[w].seq = n => wpc[w] = "task_done"

\* C25: no worker leaves its loop before stop_event is set, whatever
\* process_file did; the step that ends process_file takes the path out of
\* the in-flight set for every outcome; and every item accepted into the
\* queue is in the end dequeued and processed to the end, unless stop_event
\* is set before.
C25_WorkersKeepGoing ==
    /\ [](\A w \in Workers : wpc[w] = "exited" => stop_event)
    /\ [][\A w \in Workers :
             (wpc[w] = "finally" /\ wpc'[w] = "task_done")
                => wcur[w].path \notin processing_files']_vars
    /\ \A n \in 1..MaxEvents : (nAccepted >= n) ~> (stop_event \/ Finished(n))

\* The first file ended in an exception, the second was processed after it by
\* the same worker, and stop_event is not set.
C25_Witness ==
    /\ ~stop_event
    /\ processing_errors >= 1
    /\ files_processed = 2
    /\ nStarted = 2
    /\ wpc[1] = "task_done" /\ wcur[1].seq = 2
    /\ wpc[2] = "loop"
    /\ lastSubmit.res = "accepted"

\* ---------------------------------------------------------------- C26
\* C26: every invocation of cleanup comes to its end, the first and the
\* repeated one, whatever the queue holds and whether or not a worker is left
\* to take from it.
C26_CleanupTerminates ==
    (cpc \in {"db_shutdown", "db_wait"}) ~> (cpc = "done")

\* cleanup has ended for the second time while a path is queued and every
\* worker has left its loop.
C26_Witness ==
    /\ cpc = "done"
    /\ cruns = 2
    /\ processing_queue # <<>>
    /\ unfinished_tasks > 0
    /\ \A w \in Workers : wpc[w] = "exited"

\* ---------------------------------------------------------------- C31
\* The step is a targeted notify to the name an already torn down connection
\* had registered, while the name maps to a later connection.
NotifiesAfterTeardown(b) ==
    /\ nCalls' = nCalls + 1
    /\ lastNotify'.kind = "targeted"
    /\ lastNotify'.target \in DOMAIN name_to_addr
    /\ name_to_addr[lastNotify'.target] = b
    /\ \E a \in Addrs \ {b} :
          /\ spc[a] = "done"
          /\ cname[a] = lastNotify'.target

Mailbox(a) == IF a \in DOMAIN client_queues THEN client_queues[a] ELSE <<>>

\* The message sender_thread of a has taken and not yet passed to sendall.
InHand(a) == IF spc[a] = "send" THEN <<smsg[a]>> ELSE <<>>

\* Every notify call numbers its message, so a mailbox is filled in the order
\* of the ids: the sequence holds each id once, smallest first.
InEnqueueOrder(seq) ==
    \A i \in 1..Len(seq) : \A j \in 1..Len(seq) : i < j => seq[i].id < seq[j].id

\* The step takes something out of the mailbox of a, which stays registered.
Dequeues(a) ==
    /\ a \in DOMAIN client_queues
    /\ a \in DOMAIN client_queues'
    /\ \/ Len(client_queues'[a]) < Len(client_queues[a])
       \/ SubSeq(client_queues'[a], 1, Len(client_queues[a])) # client_queues[a]

\* C32: what was written to a connection, the message its sender holds and
\* what waits in its mailbox are, in this order, the messages in the order of
\* their enqueueing, none of them twice; a mailbox loses a message only in the
\* step in which its own sender takes its oldest one; and the only thing ever
\* written to a connection is the message its own sender holds.
C32_WrittenInOrderOnce ==
    /\ [](\A a \in Addrs :
             InEnqueueOrder(delivered[a] \o InHand(a) \o Mailbox(a)))
    /\ [][\A a \in Addrs :
             /\ Dequeues(a) =>
                   /\ spc[a] = "get" /\ spc'[a] = "send"
                   /\ smsg'[a] = Head(client_queues[a])
                   /\ client_queues'[a] = Tail(client_queues[a])
                   /\ \A b \in Addrs \ {a} : spc'[b] = spc[b] /\ smsg'[b] = smsg[b]
             /\ delivered'[a] # delivered[a] =>
                   /\ spc[a] = "send"
                   /\ delivered'[a] = Append(delivered[a], smsg[a])]_vars

\* Two messages were enqueued for a connection registered before both calls,
\* and both were written to it, the one enqueued first before the other.
C32_Witness ==
    \E a \in Addrs :
        /\ Len(delivered[a]) = 2
        /\ delivered[a][1].id = 1
        /\ delivered[a][2].id = 2
        /\ since[a] = 0
        /\ spc[a] = "get"
        /\ a \in DOMAIN client_queues
        /\ a \notin closed \cup peerGone
====
